---- MODULE Spec2Model ----
(***************************************************************************)
(* Model of script/xlsx-overwrite-cells.py: style-preserving overwrite of  *)
(* cells inside an .xlsx archive.                                          *)
(*                                                                         *)
(* Strings are sequences of one-character strings, so that strip(),        *)
(* upper(), int(), str() and the cell-reference regular expression are     *)
(* modelled by what they compute.                                          *)
(***************************************************************************)
EXTENDS Integers, Sequences, FiniteSets, TLC

VARIABLES
    pc,            \* position of main() / patch_sheet_xml() / copy_zip_with_replacements()
    changes,       \* payload["changes"] (main, line 275)
    archive,       \* the workbook archive file on disk: sequence of zip entries
    i,             \* index of the next change of the grouping loop (line 285)
    grouped,       \* grouped: insertion-ordered dict, as a sequence of [path, changes]
    issues,        \* issues list of main()
    applied_count, \* applied_count of main()
    replacements,  \* replacements: sequence of [path, data]
    g,             \* index of the group being processed (line 304)
    sheet_data,    \* rows of the worksheet being patched (patch_sheet_xml)
    j,             \* index of the next change inside patch_sheet_xml (line 183)
    applied,       \* applied of patch_sheet_xml
    sheet_issues,  \* issues of patch_sheet_xml
    temp,          \* the temporary file and the two archive handles: [exists, entries, zin_open, zout_open]
    k,             \* index of the next entry of the copy loop (line 243)
    raised,        \* an exception is propagating out of the try block (line 241)
    stdout,        \* result documents printed (line 331)
    exit_code,     \* process exit status, -1 while running
    original,      \* the archive as it was on disk when main() opened it (line 279)
    colx, coly,    \* inputs of the column-index check
    idx_x, idx_y,  \* col_letters_to_index(colx), col_letters_to_index(coly)
    colpc          \* position of the column-index check

vars == <<pc, changes, archive, i, grouped, issues, applied_count, replacements,
          g, sheet_data, j, applied, sheet_issues, temp, k, raised, stdout,
          exit_code, original, colx, coly, idx_x, idx_y, colpc>>

mainvars == <<pc, changes, archive, i, grouped, issues, applied_count, replacements,
              g, sheet_data, j, applied, sheet_issues, temp, k, raised, stdout,
              exit_code, original>>

colvars == <<colx, coly, idx_x, idx_y, colpc>>

----------------------------------------------------------------------------
(* Bounds *)

MaxChanges == 2
MaxLetters == 2

----------------------------------------------------------------------------
(* Characters and strings *)

UpperChars == <<"A","B","C","D","E","F","G","H","I","J","K","L","M",
                "N","O","P","Q","R","S","T","U","V","W","X","Y","Z">>
LowerChars == <<"a","b","c","d","e","f","g","h","i","j","k","l","m",
                "n","o","p","q","r","s","t","u","v","w","x","y","z">>
DigitChars == <<"0","1","2","3","4","5","6","7","8","9">>

Range(s) == {s[n] : n \in DOMAIN s}

IndexOf(s, ch) == CHOOSE n \in DOMAIN s : s[n] = ch

IsUpper(ch) == ch \in Range(UpperChars)
IsLower(ch) == ch \in Range(LowerChars)
IsLetter(ch) == IsUpper(ch) \/ IsLower(ch)
IsDigit(ch) == ch \in Range(DigitChars)
IsSpace(ch) == ch = " "

\* ord(ch) for ASCII letters
Ord(ch) == IF IsUpper(ch) THEN 64 + IndexOf(UpperChars, ch)
           ELSE 96 + IndexOf(LowerChars, ch)

\* str.upper()
UpperChar(ch) == IF IsLower(ch) THEN UpperChars[IndexOf(LowerChars, ch)] ELSE ch
Upper(s) == [n \in DOMAIN s |-> UpperChar(s[n])]

\* str.strip()
RECURSIVE LStrip(_)
LStrip(s) == IF s # <<>> /\ IsSpace(Head(s)) THEN LStrip(Tail(s)) ELSE s
RECURSIVE RStrip(_)
RStrip(s) == IF s # <<>> /\ IsSpace(s[Len(s)]) THEN RStrip(SubSeq(s, 1, Len(s) - 1)) ELSE s
Strip(s) == RStrip(LStrip(s))

\* "".join(texts)
RECURSIVE Join(_)
Join(texts) == IF texts = <<>> THEN <<>> ELSE Head(texts) \o Join(Tail(texts))

AllDigits(s) == s # <<>> /\ \A n \in DOMAIN s : IsDigit(s[n])

\* value of a digit string
RECURSIVE DigitsValue(_, _)
DigitsValue(s, acc) ==
    IF s = <<>> THEN acc
    ELSE DigitsValue(Tail(s), acc * 10 + (IndexOf(DigitChars, Head(s)) - 1))

\* int(text): surrounding whitespace is accepted, anything else but digits raises ValueError
PyIntOk(s) == AllDigits(Strip(s))
PyInt(s) == DigitsValue(Strip(s), 0)

\* str(n) for n >= 0
RECURSIVE PyStr(_)
PyStr(n) == IF n < 10 THEN <<DigitChars[n + 1]>>
            ELSE PyStr(n \div 10) \o <<DigitChars[(n % 10) + 1]>>

----------------------------------------------------------------------------
(* Cell addresses *)

\* CELL_REF_RE = ^([A-Za-z]+)(\d+)$ : the longest letter prefix, then digits only
RECURSIVE LetterPrefixLen(_)
LetterPrefixLen(s) ==
    IF s # <<>> /\ IsLetter(Head(s)) THEN 1 + LetterPrefixLen(Tail(s)) ELSE 0

CELL_REF_RE(s) ==
    LET n == LetterPrefixLen(s)
        rest == SubSeq(s, n + 1, Len(s))
    IN  IF n >= 1 /\ AllDigits(rest)
        THEN [match |-> TRUE, g1 |-> SubSeq(s, 1, n), g2 |-> rest]
        ELSE [match |-> FALSE, g1 |-> <<>>, g2 |-> <<>>]

RECURSIVE ColLoopZeroBased(_, _)
ColLoopZeroBased(s, value) ==
    IF s = <<>> THEN value
    ELSE ColLoopZeroBased(Tail(s), value * 26 + (Ord(Head(s)) - 65))

\* a col_letters_to_index that takes A as digit 0
col_letters_to_index_zero(col_letters) == ColLoopZeroBased(Upper(col_letters), 0)

RECURSIVE ColLoop(_, _)
ColLoop(s, value) ==
    IF s = <<>> THEN value
    ELSE ColLoop(Tail(s), value * 26 + (Ord(Head(s)) - 64))

col_letters_to_index(col_letters) == ColLoop(Upper(col_letters), 0)

\* parse_cell_ref: err stands for the raised ValueError
parse_cell_ref(address) ==
    LET m == CELL_REF_RE(address)
    IN  IF ~m.match THEN [err |-> TRUE, col |-> <<>>, row |-> 0]
        ELSE [err |-> FALSE, col |-> Upper(m.g1), row |-> PyInt(m.g2)]

----------------------------------------------------------------------------
(* Worksheet document: rows is the sequence of <row> children of sheetData, *)
(* a row is [r, cells], a cell is [r, t, hasV, v, ts, space]:               *)
(*   r      the "r" attribute                                               *)
(*   t      the "t" attribute ("none" when absent)                          *)
(*   hasV/v the <v> child and its text                                      *)
(*   ts     the texts of the <t> descendants, in document order             *)
(*   space  xml:space="preserve" on the text node                           *)
(***************************************************************************)

\* list.insert(at, x) with a 0-based position
ListInsert(s, at, x) == SubSeq(s, 1, at) \o <<x>> \o SubSeq(s, at + 1, Len(s))

\* index of the first TRUE of a sequence of booleans, 0 when there is none:
\* the element at which a for loop over the siblings returns or breaks
FirstIndex(hits) ==
    IF \E n \in DOMAIN hits : hits[n]
    THEN CHOOSE n \in DOMAIN hits : hits[n] /\ \A m \in 1..(n - 1) : ~hits[m]
    ELSE 0

extract_cell_text(cell, shared_strings) ==
    IF cell.t = "inlineStr" THEN Join(cell.ts)
    ELSE IF ~cell.hasV THEN <<>>
    ELSE IF cell.t = "s" /\ PyIntOk(cell.v)
              /\ 0 <= PyInt(cell.v) /\ PyInt(cell.v) < Len(shared_strings)
         THEN shared_strings[PyInt(cell.v) + 1]
         ELSE cell.v

\* find_row: index of the row found, 0 for None
find_row(rows, row_num) ==
    FirstIndex([n \in DOMAIN rows |-> rows[n].r = PyStr(row_num)])

\* an insert_row_sorted that always appends
insert_row_sorted_append(rows, row_num) ==
    [rows |-> Append(rows, [r |-> PyStr(row_num), cells |-> <<>>]), at |-> Len(rows) + 1]

\* insert_row_sorted: the new rows and the (1-based) index of the new row
insert_row_sorted(rows, row_num) ==
    LET new_row == [r |-> PyStr(row_num), cells |-> <<>>]
        existing_num(row) == IF PyIntOk(row.r) THEN PyInt(row.r) ELSE 0
        first == FirstIndex([n \in DOMAIN rows |-> existing_num(rows[n]) > row_num])
        insert_at == IF first = 0 THEN Len(rows) ELSE first - 1
    IN  [rows |-> ListInsert(rows, insert_at, new_row), at |-> insert_at + 1]

\* find_cell: index of the cell found, 0 for None
find_cell(cells, address) ==
    FirstIndex([n \in DOMAIN cells |-> cells[n].r = address])

NewCell(address) ==
    [r |-> address, t |-> "none", hasV |-> FALSE, v |-> <<>>, ts |-> <<>>, space |-> FALSE]

\* an insert_cell_sorted that always appends
insert_cell_sorted_append(cells, address) ==
    [cells |-> Append(cells, NewCell(address)), at |-> Len(cells) + 1]

\* insert_cell_sorted: the new cells and the (1-based) index of the new cell
insert_cell_sorted(cells, address) ==
    LET col_idx == col_letters_to_index(parse_cell_ref(address).col)
        Greater(cell) ==
            /\ CELL_REF_RE(cell.r).match
            /\ col_letters_to_index(CELL_REF_RE(cell.r).g1) > col_idx
        first == FirstIndex([n \in DOMAIN cells |-> Greater(cells[n])])
        insert_at == IF first = 0 THEN Len(cells) ELSE first - 1
    IN  [cells |-> ListInsert(cells, insert_at, NewCell(address)), at |-> insert_at + 1]

write_inline_string(cell, value) ==
    [cell EXCEPT !.t = "inlineStr", !.hasV = FALSE, !.v = <<>>, !.ts = <<value>>,
                 !.space = (value # <<>> /\ (value[1] = " " \/ value[Len(value)] = " "))]

\* ET.fromstring / ET.tostring: the bytes of an entry are [enc, hasSheetData, rows];
\* enc tells the original writer's encoding from ElementTree's serialisation,
\* so that a re-serialised worksheet never has the bytes it was read from
ET_fromstring(bytes) == [hasSheetData |-> bytes.hasSheetData, rows |-> bytes.rows]
ET_tostring(hasSheetData, rows) ==
    [enc |-> "etree", hasSheetData |-> hasSheetData, rows |-> rows]

----------------------------------------------------------------------------
(* The workbook and the payloads explored *)

STYLES == "xl/styles.xml"
SHEET1 == "xl/worksheets/sheet1.xml"
SHEET2 == "xl/worksheets/sheet2.xml"
SHEET3 == "xl/worksheets/sheet3.xml"

\* get_shared_strings(zin)
shared_strings == << <<"O">> >>

\* build_sheet_name_to_path(zin); sheet_map.get(name) is "" for None.
\* Sheet3 is declared by the workbook but its entry is not in the archive.
sheet_map_get(sheet_name) ==
    CASE sheet_name = "Sheet1" -> SHEET1
      [] sheet_name = "Sheet2" -> SHEET2
      [] sheet_name = "Sheet3" -> SHEET3
      [] OTHER -> ""

Cell(r, t, hasV, v, ts) ==
    [r |-> r, t |-> t, hasV |-> hasV, v |-> v, ts |-> ts, space |-> FALSE]

\* sheet1: A1 is a shared string ("O"), C1 an inline string ("N"), B3 a number
Sheet1Rows ==
    << [r |-> <<"1">>, cells |-> << Cell(<<"A","1">>, "s", TRUE, <<"0">>, <<>>),
                                    Cell(<<"C","1">>, "inlineStr", FALSE, <<>>, << <<"N">> >>) >>],
       [r |-> <<"3">>, cells |-> << Cell(<<"B","3">>, "none", TRUE, <<"7">>, <<>>) >>] >>

Entry(filename, flag_bits, data) ==
    [filename |-> filename, date_time |-> 2020, compress_type |-> "deflated",
     flag_bits |-> flag_bits, data |-> data]

Archive0(styles_flags, sheet2_has_data) ==
    << Entry(STYLES, styles_flags, [enc |-> "source", hasSheetData |-> FALSE, rows |-> <<>>]),
       Entry(SHEET1, 0, [enc |-> "source", hasSheetData |-> TRUE, rows |-> Sheet1Rows]),
       Entry(SHEET2, 0, [enc |-> "source", hasSheetData |-> sheet2_has_data, rows |-> <<>>]) >>

Addresses == { <<"A","1">>, <<"C","1">>, <<"c","1">>, <<"B","1">>, <<"A","0","1">>,
               <<"B","2">>, <<"1","A">> }
BeforeNames == { <<>>, <<"O"," ">> }

\* a change request; tableIndex, columnIndex and target are only copied into the
\* issues (lines 187-190) and are left out
Change(sheetName, sourceAddress, beforeName, afterName) ==
    [sheetName |-> sheetName, sourceAddress |-> sourceAddress,
     beforeName |-> beforeName, afterName |-> afterName]

\* every address with every beforeName for sheet1, one change whose afterName carries
\* a trailing space, and one change for each of the other sheet names
ChangeRequests ==
    { Change("Sheet1", a, b, <<"N">>) : a \in Addresses, b \in BeforeNames }
    \cup { Change("Sheet1", <<"C","1">>, <<"O"," ">>, <<"N"," ">>) }
    \cup { Change(sn, <<"A","1">>, <<>>, <<"N">>) : sn \in {"Sheet2", "Sheet3", "NoSuchSheet"} }

RECURSIVE SeqsUpTo(_, _)
SeqsUpTo(S, n) ==
    IF n = 0 THEN { <<>> }
    ELSE LET shorter == SeqsUpTo(S, n - 1)
         IN  shorter \cup { Append(q, x) : q \in shorter, x \in S }

Payloads == SeqsUpTo(ChangeRequests, MaxChanges)

----------------------------------------------------------------------------
(* main() *)

namelist(zip) == { zip[n].filename : n \in DOMAIN zip }

zin_read(zip, filename) ==
    LET n == CHOOSE m \in DOMAIN zip : zip[m].filename = filename
    IN  zip[n].data

Issue(sheetName, sourceAddress, text, expected, actual) ==
    [sheetName |-> sheetName, sourceAddress |-> sourceAddress,
     reason |-> [text |-> text, expected |-> expected, actual |-> actual]]

NoTemp == [exists |-> FALSE, entries |-> <<>>, zin_open |-> FALSE, zout_open |-> FALSE]

MainInit ==
    /\ changes \in Payloads
    /\ \E styles_flags \in {0, 2}, sheet2_has_data \in BOOLEAN :
          /\ archive = Archive0(styles_flags, sheet2_has_data)
          /\ original = archive
    /\ pc = IF changes = <<>> THEN "end_groups" ELSE "group"
    /\ i = 1
    /\ grouped = <<>>
    /\ issues = <<>>
    /\ applied_count = 0
    /\ replacements = <<>>
    /\ g = 1
    /\ sheet_data = <<>>
    /\ j = 1
    /\ applied = 0
    /\ sheet_issues = <<>>
    /\ temp = NoTemp
    /\ k = 1
    /\ raised = FALSE
    /\ stdout = <<>>
    /\ exit_code = -1

ColIdle ==
    /\ colx = <<>>
    /\ coly = <<>>
    /\ idx_x = 0
    /\ idx_y = 0
    /\ colpc = "idle"

Init == MainInit /\ ColIdle

\* lines 285-300: one iteration of the grouping loop
GroupChange ==
    /\ pc = "group"
    /\ LET change == changes[i]
           sheet_name == change.sheetName
           target_path == sheet_map_get(sheet_name)
           known == { n \in DOMAIN grouped : grouped[n].path = target_path }
       IN  /\ IF target_path = ""
              THEN /\ issues' = Append(issues,
                          Issue(sheet_name, change.sourceAddress,
                                "Worksheet not found in workbook", <<>>, <<>>))
                   /\ UNCHANGED grouped
              ELSE /\ grouped' =
                          IF known = {}
                          THEN Append(grouped, [path |-> target_path, changes |-> <<change>>])
                          ELSE [grouped EXCEPT ![CHOOSE n \in known : TRUE].changes =
                                                    Append(@, change)]
                   /\ UNCHANGED issues
           /\ i' = i + 1
           /\ pc' = IF i = Len(changes) THEN "end_groups" ELSE "group"
    /\ UNCHANGED <<changes, archive, applied_count, replacements, g, sheet_data, j,
                   applied, sheet_issues, temp, k, raised, stdout, exit_code, original>>
    /\ UNCHANGED colvars

\* where the loop of line 304 goes after the group g - 1
AfterGroup(next_g, next_replacements) ==
    IF next_g <= Len(grouped) THEN "sheet"
    ELSE IF next_replacements # <<>> THEN "copy_tmp" ELSE "print"

\* line 302-304: the grouping loop is over, the loop over the groups starts
StartGroups ==
    /\ pc = "end_groups"
    /\ g' = 1
    /\ pc' = AfterGroup(1, replacements)
    /\ UNCHANGED <<changes, archive, i, grouped, issues, applied_count, replacements,
                   sheet_data, j, applied, sheet_issues, temp, k, raised, stdout,
                   exit_code, original>>
    /\ UNCHANGED colvars

\* a loop over a missing worksheet's changes that records one issue for the group
MissingEntry_single ==
    /\ pc = "sheet"
    /\ grouped[g].path \notin namelist(archive)
    /\ issues' = Append(issues,
          Issue(grouped[g].changes[1].sheetName, grouped[g].changes[1].sourceAddress,
                "Worksheet xml entry not found in workbook zip", <<>>, <<>>))
    /\ g' = g + 1
    /\ pc' = AfterGroup(g + 1, replacements)
    /\ UNCHANGED <<changes, archive, i, grouped, applied_count, replacements,
                   sheet_data, j, applied, sheet_issues, temp, k, raised, stdout,
                   exit_code, original>>
    /\ UNCHANGED colvars

\* lines 305-317: the worksheet entry is not in the archive
MissingEntry ==
    /\ pc = "sheet"
    /\ grouped[g].path \notin namelist(archive)
    /\ issues' = issues \o
          [n \in DOMAIN grouped[g].changes |->
              Issue(grouped[g].changes[n].sheetName, grouped[g].changes[n].sourceAddress,
                    "Worksheet xml entry not found in workbook zip", <<>>, <<>>)]
    /\ g' = g + 1
    /\ pc' = AfterGroup(g + 1, replacements)
    /\ UNCHANGED <<changes, archive, i, grouped, applied_count, replacements,
                   sheet_data, j, applied, sheet_issues, temp, k, raised, stdout,
                   exit_code, original>>
    /\ UNCHANGED colvars

----------------------------------------------------------------------------
(* patch_sheet_xml(), called at line 319 for the group g *)

sheet_changes == grouped[g].changes

MainFrameOfPatch ==
    UNCHANGED <<changes, archive, i, grouped, issues, applied_count, replacements, g,
                temp, k, raised, stdout, exit_code, original>>

\* lines 175-181: the worksheet is parsed and has a sheetData node
ParseSheet ==
    /\ pc = "sheet"
    /\ grouped[g].path \in namelist(archive)
    /\ LET root == ET_fromstring(zin_read(archive, grouped[g].path))
       IN  /\ root.hasSheetData
           /\ sheet_data' = root.rows
    /\ applied' = 0
    /\ sheet_issues' = <<>>
    /\ j' = 1
    /\ pc' = "patch"
    /\ MainFrameOfPatch
    /\ UNCHANGED colvars

\* a patch_sheet_xml that gives up on a worksheet without sheetData instead of raising
ParseSheetNoData_skip ==
    /\ pc = "sheet"
    /\ grouped[g].path \in namelist(archive)
    /\ ~ET_fromstring(zin_read(archive, grouped[g].path)).hasSheetData
    /\ issues' = issues \o
          [n \in DOMAIN sheet_changes |->
              Issue(sheet_changes[n].sheetName, sheet_changes[n].sourceAddress,
                    "sheetData not found", <<>>, <<>>)]
    /\ g' = g + 1
    /\ pc' = AfterGroup(g + 1, replacements)
    /\ UNCHANGED <<changes, archive, i, grouped, applied_count, replacements,
                   sheet_data, j, applied, sheet_issues, temp, k, raised, stdout,
                   exit_code, original>>
    /\ UNCHANGED colvars

\* lines 176-178: no sheetData node; the ValueError leaves main() (line 346)
ParseSheetNoData ==
    /\ pc = "sheet"
    /\ grouped[g].path \in namelist(archive)
    /\ ~ET_fromstring(zin_read(archive, grouped[g].path)).hasSheetData
    /\ pc' = "failed"
    /\ UNCHANGED <<changes, archive, i, grouped, issues, applied_count, replacements, g,
                   sheet_data, j, applied, sheet_issues, temp, k, raised, stdout,
                   exit_code, original>>
    /\ UNCHANGED colvars

\* line 184
AddressOf(change) == Strip(change.sourceAddress)

\* lines 207-209: row, existing_cell (as indices, 0 for None) and current_value
Lookup(rows, address) ==
    LET row_num == parse_cell_ref(address).row
        row == find_row(rows, row_num)
        existing_cell == IF row # 0 THEN find_cell(rows[row].cells, address) ELSE 0
        current_value ==
            IF existing_cell # 0
            THEN extract_cell_text(rows[row].cells[existing_cell], shared_strings)
            ELSE <<>>
    IN  [row_num |-> row_num, row |-> row, existing_cell |-> existing_cell,
         current_value |-> current_value]

\* line 211
Validates(current_value, before, after) ==
    Strip(current_value) \in {Strip(before), Strip(after)}

\* lines 224-227: the rows after the change is applied
ApplyChange(rows, address, after) ==
    LET found == Lookup(rows, address)
        withRow == IF found.row = 0 THEN insert_row_sorted(rows, found.row_num)
                   ELSE [rows |-> rows, at |-> found.row]
        row_cells == withRow.rows[withRow.at].cells
        withCell == IF found.existing_cell = 0 THEN insert_cell_sorted(row_cells, address)
                    ELSE [cells |-> row_cells, at |-> found.existing_cell]
        written == [withCell.cells EXCEPT ![withCell.at] = write_inline_string(@, after)]
    IN  [withRow.rows EXCEPT ![withRow.at].cells = written]

NextChange ==
    /\ j' = j + 1
    /\ pc' = IF j = Len(sheet_changes) THEN "serialize" ELSE "patch"

\* lines 192-205: the address does not parse
PatchInvalidAddress ==
    /\ pc = "patch"
    /\ LET change == sheet_changes[j]
           address == AddressOf(change)
       IN  /\ parse_cell_ref(address).err
           /\ sheet_issues' = Append(sheet_issues,
                  Issue(change.sheetName, address, "Invalid cell address", <<>>, address))
    /\ NextChange
    /\ UNCHANGED <<sheet_data, applied>>
    /\ MainFrameOfPatch
    /\ UNCHANGED colvars

\* a change applicator whose row look-up creates the missing row before validation
PatchValueMismatch_inserting ==
    /\ pc = "patch"
    /\ LET change == sheet_changes[j]
           address == AddressOf(change)
           found == Lookup(sheet_data, address)
       IN  /\ ~parse_cell_ref(address).err
           /\ ~Validates(found.current_value, change.beforeName, change.afterName)
           /\ sheet_issues' = Append(sheet_issues,
                  Issue(change.sheetName, address, "Cell value mismatch",
                        change.beforeName, found.current_value))
           /\ sheet_data' = IF found.row = 0
                            THEN insert_row_sorted(sheet_data, found.row_num).rows
                            ELSE sheet_data
    /\ NextChange
    /\ UNCHANGED applied
    /\ MainFrameOfPatch
    /\ UNCHANGED colvars

\* lines 207-222: the current value is neither beforeName nor afterName
PatchValueMismatch ==
    /\ pc = "patch"
    /\ LET change == sheet_changes[j]
           address == AddressOf(change)
           found == Lookup(sheet_data, address)
       IN  /\ ~parse_cell_ref(address).err
           /\ ~Validates(found.current_value, change.beforeName, change.afterName)
           /\ sheet_issues' = Append(sheet_issues,
                  Issue(change.sheetName, address, "Cell value mismatch",
                        change.beforeName, found.current_value))
    /\ NextChange
    /\ UNCHANGED <<sheet_data, applied>>
    /\ MainFrameOfPatch
    /\ UNCHANGED colvars

\* lines 207-228: the change is applied
PatchApply ==
    /\ pc = "patch"
    /\ LET change == sheet_changes[j]
           address == AddressOf(change)
           found == Lookup(sheet_data, address)
       IN  /\ ~parse_cell_ref(address).err
           /\ Validates(found.current_value, change.beforeName, change.afterName)
           /\ sheet_data' = ApplyChange(sheet_data, address, change.afterName)
    /\ applied' = applied + 1
    /\ NextChange
    /\ UNCHANGED sheet_issues
    /\ MainFrameOfPatch
    /\ UNCHANGED colvars

\* lines 230-231 and 324-326: the worksheet is serialised and becomes a replacement
SerializeSheet ==
    /\ pc = "serialize"
    /\ replacements' =
          LET new == [path |-> grouped[g].path, data |-> ET_tostring(TRUE, sheet_data)]
              old == { n \in DOMAIN replacements : replacements[n].path = new.path }
          IN  IF old = {} THEN Append(replacements, new)
              ELSE [replacements EXCEPT ![CHOOSE n \in old : TRUE] = new]
    /\ applied_count' = applied_count + applied
    /\ issues' = issues \o sheet_issues
    /\ g' = g + 1
    /\ pc' = AfterGroup(g + 1, replacements')
    /\ UNCHANGED <<changes, archive, i, grouped, sheet_data, j, applied, sheet_issues,
                   temp, k, raised, stdout, exit_code, original>>
    /\ UNCHANGED colvars

----------------------------------------------------------------------------
(* copy_zip_with_replacements(), called at line 329 *)

CopyFrame ==
    UNCHANGED <<changes, i, grouped, issues, applied_count, replacements, g,
                sheet_data, j, applied, sheet_issues, stdout, exit_code, original>>

\* replacements.get(filename, default)
replacements_get(filename, default) ==
    LET hit == { n \in DOMAIN replacements : replacements[n].path = filename }
    IN  IF hit = {} THEN default ELSE replacements[CHOOSE n \in hit : TRUE].data

\* lines 245-254: the ZipInfo built for the copy of an entry
new_info(info) ==
    [filename |-> info.filename, date_time |-> info.date_time,
     compress_type |-> info.compress_type, flag_bits |-> info.flag_bits]

\* line 255, zout.writestr(new_info, data): the entry as it is stored.  ZipFile.writestr
\* clears the general-purpose flag bits of the ZipInfo it is given before it writes
\* the header (only the LZMA and data-descriptor bits are set again, neither of which
\* applies to a stored or deflated entry of a seekable file).
writestr(zinfo, data) ==
    [filename |-> zinfo.filename, date_time |-> zinfo.date_time,
     compress_type |-> zinfo.compress_type, flag_bits |-> 0, data |-> data]

\* lines 238-239: the temporary file is created (and its handle closed)
CreateTemp ==
    /\ pc = "copy_tmp"
    /\ temp' = [NoTemp EXCEPT !.exists = TRUE]
    /\ pc' = "copy_open"
    /\ UNCHANGED <<archive, k, raised>>
    /\ CopyFrame
    /\ UNCHANGED colvars

\* line 238 raises: no temporary file exists and the try block is never entered
CreateTempFails ==
    /\ pc = "copy_tmp"
    /\ pc' = "failed"
    /\ UNCHANGED <<archive, temp, k, raised>>
    /\ CopyFrame
    /\ UNCHANGED colvars

\* line 242: both archives are opened; opening for "w" truncates the temporary file
OpenArchives ==
    /\ pc = "copy_open"
    /\ temp' = [exists |-> TRUE, entries |-> <<>>, zin_open |-> TRUE, zout_open |-> TRUE]
    /\ k' = 1
    /\ pc' = "copy_entry"
    /\ UNCHANGED <<archive, raised>>
    /\ CopyFrame
    /\ UNCHANGED colvars

\* lines 243-255: one entry is copied, or replaced by its patched bytes
CopyEntry ==
    /\ pc = "copy_entry"
    /\ LET info == archive[k]
           data == replacements_get(info.filename, zin_read(archive, info.filename))
       IN  temp' = [temp EXCEPT !.entries = Append(@, writestr(new_info(info), data))]
    /\ k' = k + 1
    /\ pc' = IF k = Len(archive) THEN "copy_close" ELSE "copy_entry"
    /\ UNCHANGED <<archive, raised>>
    /\ CopyFrame
    /\ UNCHANGED colvars

\* a copy that swaps the archives as soon as the last entry is written,
\* inside the with block
CloseArchives_swapping ==
    /\ pc = "copy_close"
    /\ archive' = temp.entries
    /\ temp' = [temp EXCEPT !.exists = FALSE]
    /\ pc' = "copy_finally"
    /\ UNCHANGED <<k, raised>>
    /\ CopyFrame
    /\ UNCHANGED colvars

\* line 242, end of the with block: both handles are closed
CloseArchives ==
    /\ pc = "copy_close"
    /\ temp' = [temp EXCEPT !.zin_open = FALSE, !.zout_open = FALSE]
    /\ pc' = "copy_replace"
    /\ UNCHANGED <<archive, k, raised>>
    /\ CopyFrame
    /\ UNCHANGED colvars

\* line 256: os.replace(temp_path, workbook_path)
Replace ==
    /\ pc = "copy_replace"
    /\ archive' = temp.entries
    /\ temp' = [temp EXCEPT !.exists = FALSE]
    /\ pc' = "copy_finally"
    /\ UNCHANGED <<k, raised>>
    /\ CopyFrame
    /\ UNCHANGED colvars

\* lines 242-256: opening, reading an entry, writing an entry, closing or the swap
\* raises; the with block closes the handles and control goes to the finally clause
CopyRaises ==
    /\ pc \in {"copy_open", "copy_entry", "copy_close", "copy_replace"}
    /\ temp' = [temp EXCEPT !.zin_open = FALSE, !.zout_open = FALSE]
    /\ raised' = TRUE
    /\ pc' = "copy_finally"
    /\ UNCHANGED <<archive, k>>
    /\ CopyFrame
    /\ UNCHANGED colvars

\* a finally clause that leaves the temporary file behind
CopyFinally_keeping ==
    /\ pc = "copy_finally"
    /\ pc' = IF raised THEN "failed" ELSE "print"
    /\ UNCHANGED <<archive, temp, k, raised>>
    /\ CopyFrame
    /\ UNCHANGED colvars

\* lines 257-259: the temporary file is removed when it still exists
CopyFinally ==
    /\ pc = "copy_finally"
    /\ temp' = IF temp.exists THEN NoTemp ELSE temp
    /\ pc' = IF raised THEN "failed" ELSE "print"
    /\ UNCHANGED <<archive, k, raised>>
    /\ CopyFrame
    /\ UNCHANGED colvars

\* lines 331-340: the result document is printed and main() returns 0
PrintResult ==
    /\ pc = "print"
    /\ stdout' = Append(stdout, [appliedCount |-> applied_count, issues |-> issues])
    /\ exit_code' = 0
    /\ pc' = "done"
    /\ UNCHANGED <<changes, archive, i, grouped, issues, applied_count, replacements, g,
                   sheet_data, j, applied, sheet_issues, temp, k, raised, original>>
    /\ UNCHANGED colvars

\* lines 346-348: the exception is reported on stderr and the process exits with 1
ExitWithError ==
    /\ pc = "failed"
    /\ exit_code' = 1
    /\ pc' = "done"
    /\ UNCHANGED <<changes, archive, i, grouped, issues, applied_count, replacements, g,
                   sheet_data, j, applied, sheet_issues, temp, k, raised, stdout, original>>
    /\ UNCHANGED colvars

Next ==
    \/ GroupChange
    \/ StartGroups
    \/ MissingEntry
    \/ ParseSheet
    \/ ParseSheetNoData
    \/ PatchInvalidAddress
    \/ PatchValueMismatch
    \/ PatchApply
    \/ SerializeSheet
    \/ CreateTemp
    \/ CreateTempFails
    \/ OpenArchives
    \/ CopyEntry
    \/ CloseArchives
    \/ Replace
    \/ CopyRaises
    \/ CopyFinally
    \/ PrintResult
    \/ ExitWithError

Spec == Init /\ [][Next]_vars

----------------------------------------------------------------------------
(* col_letters_to_index on pairs of letter groups *)

ColChars == {"A", "B", "C", "Y", "Z", "a", "b", "z"}

RECURSIVE GroupsOfLen(_)
GroupsOfLen(n) ==
    IF n = 0 THEN { <<>> }
    ELSE { Append(q, ch) : q \in GroupsOfLen(n - 1), ch \in ColChars }

LetterGroups == UNION { GroupsOfLen(n) : n \in 1..MaxLetters }

MainIdle ==
    /\ changes = <<>>
    /\ archive = Archive0(0, TRUE)
    /\ original = archive
    /\ pc = "done"
    /\ i = 1
    /\ grouped = <<>>
    /\ issues = <<>>
    /\ applied_count = 0
    /\ replacements = <<>>
    /\ g = 1
    /\ sheet_data = <<>>
    /\ j = 1
    /\ applied = 0
    /\ sheet_issues = <<>>
    /\ temp = NoTemp
    /\ k = 1
    /\ raised = FALSE
    /\ stdout = <<>>
    /\ exit_code = -1

ColInit ==
    /\ MainIdle
    /\ colx \in LetterGroups
    /\ coly \in LetterGroups
    /\ idx_x = 0
    /\ idx_y = 0
    /\ colpc = "input"

ColCompute ==
    /\ colpc = "input"
    /\ idx_x' = col_letters_to_index(colx)
    /\ idx_y' = col_letters_to_index(coly)
    /\ colpc' = "computed"
    /\ UNCHANGED <<colx, coly>>
    /\ UNCHANGED mainvars

ColNext == ColCompute

SpecCol == ColInit /\ [][ColNext]_vars

----------------------------------------------------------------------------
(* Grid positions, used to state the properties *)

InPatch == pc \in {"patch", "serialize"}

RowNumber(row) == PyInt(row.r)
ColumnIndex(cell) == col_letters_to_index(CELL_REF_RE(cell.r).g1)

\* the cells of the document that lie at the grid position an address denotes
\* (column letters compared without case, row numbers as integers), in document order
RECURSIVE SelectSeq2(_, _, _, _)
SelectSeq2(cells, col, n, acc) ==
    IF n > Len(cells) THEN acc
    ELSE SelectSeq2(cells, col, n + 1,
                    IF ColumnIndex(cells[n]) = col THEN Append(acc, cells[n]) ELSE acc)

RECURSIVE CellsAtFrom(_, _, _, _)
CellsAtFrom(rows, row_num, col, n) ==
    IF n > Len(rows) THEN <<>>
    ELSE (IF RowNumber(rows[n]) = row_num THEN SelectSeq2(rows[n].cells, col, 1, <<>>) ELSE <<>>)
         \o CellsAtFrom(rows, row_num, col, n + 1)

CellsAt(rows, address) ==
    LET p == parse_cell_ref(address)
    IN  CellsAtFrom(rows, p.row, col_letters_to_index(p.col), 1)

\* the text of the cell at the grid position of the address, "" when there is none
TextAt(rows, address) ==
    IF CellsAt(rows, address) = <<>> THEN <<>>
    ELSE extract_cell_text(CellsAt(rows, address)[1], shared_strings)

RemoveAt(s, n) == SubSeq(s, 1, n - 1) \o SubSeq(s, n + 1, Len(s))

\* t is s, or s with one element inserted
SameOrOneInserted(s, t) ==
    \/ t = s
    \/ /\ Len(t) = Len(s) + 1
       /\ \E n \in DOMAIN t : RemoveAt(t, n) = s

RowRefs(rows) == [n \in DOMAIN rows |-> rows[n].r]
CellRefs(row) == [n \in DOMAIN row.cells |-> row.cells[n].r]

RowsSorted(rows) ==
    \A m, n \in DOMAIN rows : m < n => RowNumber(rows[m]) <= RowNumber(rows[n])

CellsSorted(rows) ==
    \A r \in DOMAIN rows : \A m, n \in DOMAIN rows[r].cells :
        m < n => ColumnIndex(rows[r].cells[m]) <= ColumnIndex(rows[r].cells[n])

NoDuplicatePositions(rows) ==
    /\ \A m, n \in DOMAIN rows : m # n => RowNumber(rows[m]) # RowNumber(rows[n])
    /\ \A r \in DOMAIN rows : \A m, n \in DOMAIN rows[r].cells :
          m # n => ColumnIndex(rows[r].cells[m]) # ColumnIndex(rows[r].cells[n])

\* the cells that do not lie at the grid position of the address, with their row
RECURSIVE OtherCellsFrom(_, _, _, _)
OtherCellsFrom(rows, address, r, c) ==
    IF r > Len(rows) THEN <<>>
    ELSE IF c > Len(rows[r].cells) THEN OtherCellsFrom(rows, address, r + 1, 1)
    ELSE LET p == parse_cell_ref(address)
             here == /\ RowNumber(rows[r]) = p.row
                     /\ ColumnIndex(rows[r].cells[c]) = col_letters_to_index(p.col)
         IN  (IF here THEN <<>> ELSE << <<rows[r].r, rows[r].cells[c]>> >>)
             \o OtherCellsFrom(rows, address, r, c + 1)

OtherCells(rows, address) == OtherCellsFrom(rows, address, 1, 1)

----------------------------------------------------------------------------
(* Properties *)

\* C1: in patch_sheet_xml, a change with a valid address is applied (applied grows by
\* one and the addressed cell holds afterName) if and only if the trimmed current text
\* of the addressed cell equals trimmed beforeName or trimmed afterName; otherwise one
\* 'Cell value mismatch' issue is recorded and the addressed cell is not mutated.
C1_AppliedIffValueMatches ==
    [][ (pc = "patch" /\ ~parse_cell_ref(AddressOf(sheet_changes[j])).err) =>
          LET change == sheet_changes[j]
              address == AddressOf(change)
          IN  IF Validates(TextAt(sheet_data, address), change.beforeName, change.afterName)
              THEN /\ applied' = applied + 1
                   /\ sheet_issues' = sheet_issues
                   /\ TextAt(sheet_data', address) = change.afterName
              ELSE /\ applied' = applied
                   /\ Len(sheet_issues') = Len(sheet_issues) + 1
                   /\ sheet_issues'[Len(sheet_issues')].reason.text = "Cell value mismatch"
                   /\ CellsAt(sheet_data', address) = CellsAt(sheet_data, address) ]_vars

\* C2: rows stay sorted ascending by row number and the cells of every row ascending by
\* column index, and an applied change leaves the pre-existing rows and cells in their
\* relative order (at most one row and one cell are inserted between them).
C2_SortedAndOrderPreserved ==
    /\ [](InPatch => RowsSorted(sheet_data) /\ CellsSorted(sheet_data))
    /\ [][ (pc = "patch") =>
             /\ SameOrOneInserted(RowRefs(sheet_data), RowRefs(sheet_data'))
             /\ \A m \in DOMAIN sheet_data :
                   \E n \in DOMAIN sheet_data' :
                      /\ n \in {m, m + 1}
                      /\ sheet_data'[n].r = sheet_data[m].r
                      /\ SameOrOneInserted(CellRefs(sheet_data[m]), CellRefs(sheet_data'[n])) ]_vars

\* a row (2) was inserted between rows 1 and 3 and a cell (B1) between A1 and C1
C2_Witness ==
    /\ InPatch
    /\ RowRefs(sheet_data) = << <<"1">>, <<"2">>, <<"3">> >>
    /\ CellRefs(sheet_data[1]) = << <<"A","1">>, <<"B","1">>, <<"C","1">> >>

\* C5: a change to a cell whose current value already is afterName is applied, records
\* no issue and mutates no other cell; and once a change has been applied, applying the
\* same change again is accepted and leaves the document as it is.
C5_Idempotent ==
    [][ (pc = "patch" /\ ~parse_cell_ref(AddressOf(sheet_changes[j])).err) =>
          LET change == sheet_changes[j]
              address == AddressOf(change)
          IN  /\ (TextAt(sheet_data, address) = change.afterName) =>
                    /\ applied' = applied + 1
                    /\ sheet_issues' = sheet_issues
                    /\ OtherCells(sheet_data', address) = OtherCells(sheet_data, address)
              /\ (applied' = applied + 1) =>
                    /\ Validates(Lookup(sheet_data', address).current_value,
                                 change.beforeName, change.afterName)
                    /\ ApplyChange(sheet_data', address, change.afterName) = sheet_data' ]_vars

\* C9: a change rejected by patch_sheet_xml (invalid address or value mismatch) leaves
\* the worksheet document as it was: no row or cell is inserted, nothing is modified.
C9_RejectedChangeLeavesDocument ==
    [][ (pc = "patch" /\ Len(sheet_issues') > Len(sheet_issues)) =>
          sheet_data' = sheet_data ]_vars

\* a change to B2 was rejected for a value mismatch while the document has no row 2
C9_Witness ==
    /\ InPatch
    /\ sheet_issues # <<>>
    /\ sheet_issues[Len(sheet_issues)].reason.text = "Cell value mismatch"
    /\ sheet_issues[Len(sheet_issues)].sourceAddress = <<"B","2">>
    /\ \A n \in DOMAIN sheet_data : RowNumber(sheet_data[n]) # 2

\* C10: no two rows of the document have the same row number and no two cells of a row
\* the same column index, whatever accepted addresses the changes use.
C10_NoDuplicateGridPositions ==
    InPatch => NoDuplicatePositions(sheet_data)

\* C3: the archive on disk changes only by the swap, made after every entry was written
\* to the temporary archive and both handles were closed; whenever a step of the copy
\* has failed the archive is the original one; and no temporary file exists once
\* copy_zip_with_replacements has returned or raised.
C3_AtomicReplace ==
    /\ [][ (archive' # archive) =>
             /\ pc = "copy_replace"
             /\ ~temp.zin_open /\ ~temp.zout_open
             /\ Len(temp.entries) = Len(archive)
             /\ archive' = temp.entries
             /\ ~raised' ]_vars
    /\ []((raised \/ pc = "failed" \/ exit_code = 1) => archive = original)
    /\ [](pc \in {"print", "failed", "done"} => ~temp.exists)

\* the copy failed partway: one entry is in the temporary archive, which still exists
C3_Witness ==
    /\ pc = "copy_finally"
    /\ raised
    /\ temp.exists
    /\ Len(temp.entries) = 1

NonAborted == pc = "done" /\ exit_code = 0

\* an entry of the archive that is a worksheet at least one change request resolved to
Targeted(filename) ==
    /\ filename \in namelist(original)
    /\ \E n \in DOMAIN changes : sheet_map_get(changes[n].sheetName) = filename

\* C4: after a run that does not abort, every entry that is not a targeted worksheet
\* keeps its place, content, compression type, timestamp and flag bits.
C4_UntargetedEntriesIdentical ==
    NonAborted =>
        /\ Len(archive) = Len(original)
        /\ \A n \in DOMAIN archive :
              /\ archive[n].filename = original[n].filename
              /\ ~Targeted(original[n].filename) => archive[n] = original[n]

RECURSIVE PendingFrom(_)
PendingFrom(n) ==
    IF n > Len(grouped) THEN 0 ELSE Len(grouped[n].changes) + PendingFrom(n + 1)

Resolved == Len(issues) + applied_count + (IF InPatch THEN applied + Len(sheet_issues) ELSE 0)
Unresolved == (Len(changes) - (i - 1)) + PendingFrom(g) - (IF InPatch THEN j - 1 ELSE 0)

\* C6: every change request is resolved exactly once, as an applied change or as one
\* issue: at any moment the changes counted or reported plus those still to be handled
\* are the changes of the payload, a run that does not abort reports
\* appliedCount + number of issues = number of changes, and a rejected change leaves the
\* document, the applied counter and the issues recorded before it as they were.
C6_OneOutcomePerChange ==
    /\ [](Resolved + Unresolved = Len(changes))
    /\ [](NonAborted =>
            /\ Len(stdout) = 1
            /\ stdout[1].appliedCount + Len(stdout[1].issues) = Len(changes))
    /\ [][ /\ Len(issues') >= Len(issues)
           /\ SubSeq(issues', 1, Len(issues)) = issues
           /\ applied_count' >= applied_count
           /\ (pc = "patch" /\ Len(sheet_issues') > Len(sheet_issues)) =>
                 /\ sheet_data' = sheet_data
                 /\ applied' = applied
                 /\ Len(sheet_issues') = Len(sheet_issues) + 1
                 /\ SubSeq(sheet_issues', 1, Len(sheet_issues)) = sheet_issues ]_vars

\* a run of two changes ended with one applied and one rejected
C6_Witness ==
    /\ NonAborted
    /\ Len(changes) = 2
    /\ stdout[1].appliedCount = 1
    /\ Len(stdout[1].issues) = 1

\* a change of the payload resolves to an entry of the archive that has no sheetData
TargetsFaultySheet ==
    \E n \in DOMAIN changes :
        LET path == sheet_map_get(changes[n].sheetName)
        IN  /\ path \in namelist(original)
            /\ ~ET_fromstring(zin_read(original, path)).hasSheetData

\* C7: when a targeted worksheet has no sheetData node the run aborts: nothing is printed,
\* the archive is never modified, no temporary archive is written, and the process ends
\* with a non-zero status.
C7_MissingSheetDataAborts ==
    TargetsFaultySheet =>
        /\ stdout = <<>>
        /\ archive = original
        /\ ~temp.exists
        /\ pc = "done" => exit_code = 1

\* the run aborted on a worksheet without sheetData after another worksheet had been
\* patched in memory
C7_Witness ==
    /\ TargetsFaultySheet
    /\ pc = "done"
    /\ exit_code = 1
    /\ replacements # <<>>
    /\ applied_count >= 1

\* position of a letter in the alphabet, A = 1 .. Z = 26, either case
AlphaPos(ch) == IF IsUpper(ch) THEN IndexOf(UpperChars, ch) ELSE IndexOf(LowerChars, ch)

RECURSIVE PositionalSum(_, _)
PositionalSum(s, n) ==
    IF n > Len(s) THEN 0
    ELSE AlphaPos(s[n]) * 26 ^ (Len(s) - n) + PositionalSum(s, n + 1)

\* bijective base-26 value of a letter group
BijectiveValue(s) == PositionalSum(s, 1)

\* spreadsheet column order: shorter first, then alphabetical, case ignored
ColumnPrecedes(x, y) ==
    \/ Len(x) < Len(y)
    \/ /\ Len(x) = Len(y)
       /\ \E n \in DOMAIN x :
             /\ AlphaPos(x[n]) < AlphaPos(y[n])
             /\ \A m \in 1..(n - 1) : AlphaPos(x[m]) = AlphaPos(y[m])

\* C8: col_letters_to_index is the bijective base-26 value of the letter group (A -> 1,
\* Z -> 26, AA -> 27, AZ -> 52, BA -> 53), it orders letter groups as spreadsheet
\* columns are ordered, and distinct upper-cased groups have distinct indices.
C8_ColumnIndex ==
    colpc = "computed" =>
        /\ idx_x = BijectiveValue(colx)
        /\ (colx = <<"A">> => idx_x = 1)
        /\ (colx = <<"Z">> => idx_x = 26)
        /\ (colx = <<"A","A">> => idx_x = 27)
        /\ (colx = <<"A","Z">> => idx_x = 52)
        /\ (colx = <<"B","A">> => idx_x = 53)
        /\ (ColumnPrecedes(colx, coly) <=> idx_x < idx_y)
        /\ (Upper(colx) # Upper(coly) => idx_x # idx_y)

\* the indices of AZ and of ba were computed
C8_Witness ==
    /\ colpc = "computed"
    /\ colx = <<"A","Z">>
    /\ coly = <<"b","a">>
    /\ idx_x = 52
    /\ idx_y = 53

====
